---- MODULE Spec2Model ----
(***************************************************************************)
(* A model of RedditImageDownloader: utils.py (Downloadable, make_request) *)
(* source_managers.py (the resolvers) and spider.py (the feed walker).     *)
(*                                                                         *)
(* Strings are sequences of one-character strings.  Python's None is the   *)
(* empty tuple and a present value x is <<x>>.                             *)
(***************************************************************************)
EXTENDS Integers, Sequences, FiniteSets, TLC

(***************************************************************************)
(* Bounds of the model                                                     *)
(***************************************************************************)
\* number of API calls the Downloadable driver makes on one object
MaxCalls == 2
\* number of distinct response bodies a URL may serve
MaxBody == 1
\* number of submissions the feeds of one run list in all
MaxSubs == 2

\* random.randint(0, 9) draws a digit of 0..9; the model draws one of 0..MaxDigit
MaxDigit == 1

(***************************************************************************)
(* Program constants                                                       *)
(***************************************************************************)
\* str(number).zfill(3)
ZFillWidth == 3

None == <<>>
Some(x) == <<x>>
IsNone(o) == o = <<>>
Val(o) == o[1]

(***************************************************************************)
(* Strings                                                                 *)
(***************************************************************************)
UpperChars == <<"A","B","C","D","E","F","G","H","I","J","K","L","M","N","O","P","Q","R","S","T","U","V","W","X","Y","Z">>
LowerChars == <<"a","b","c","d","e","f","g","h","i","j","k","l","m","n","o","p","q","r","s","t","u","v","w","x","y","z">>
DigitChars == <<"0","1","2","3","4","5","6","7","8","9">>

Range(s) == {s[i] : i \in DOMAIN s}

\* the characters the regular expression \w matches
WordChars == Range(UpperChars) \cup Range(LowerChars) \cup Range(DigitChars) \cup {"_"}

LowerChar(c) ==
    IF c \in Range(UpperChars)
    THEN LowerChars[CHOOSE i \in DOMAIN UpperChars : UpperChars[i] = c]
    ELSE c

\* str.lower()
ToLower(s) == [i \in DOMAIN s |-> LowerChar(s[i])]

\* str.replace(a, b) for single characters
ReplaceChar(s, a, b) == [i \in DOMAIN s |-> IF s[i] = a THEN b ELSE s[i]]

\* str.find(c) + 1: the first position of c, 0 when absent
Find(s, c) ==
    IF \E i \in DOMAIN s : s[i] = c
    THEN CHOOSE i \in DOMAIN s : s[i] = c /\ \A j \in 1..(i - 1) : s[j] # c
    ELSE 0

\* str.rfind(c) + 1: the last position of c, 0 when absent
RFind(s, c) ==
    IF \E i \in DOMAIN s : s[i] = c
    THEN CHOOSE i \in DOMAIN s : s[i] = c /\ \A j \in (i + 1)..Len(s) : s[j] # c
    ELSE 0

\* s.split(c)[0]
SplitFirst(s, c) == IF Find(s, c) = 0 THEN s ELSE SubSeq(s, 1, Find(s, c) - 1)

\* s.split(c)[-1]
SplitLast(s, c) == SubSeq(s, RFind(s, c) + 1, Len(s))

\* s[n:]
Drop(s, n) == SubSeq(s, n + 1, Len(s))

\* sub in s
Contains(sub, s) ==
    \E i \in 0..(Len(s) - Len(sub)) : SubSeq(s, i + 1, i + Len(sub)) = sub

\* s.startswith(p)
StartsWith(s, p) == Len(p) <= Len(s) /\ SubSeq(s, 1, Len(p)) = p

\* os.path.splitext(p): <<root, extension>>
SplitExt(p) ==
    LET sepIndex == RFind(p, "/")
        dotIndex == RFind(p, ".")
    IN  IF /\ dotIndex > sepIndex
           /\ \E i \in (sepIndex + 1)..(dotIndex - 1) : p[i] # "."
        THEN <<SubSeq(p, 1, dotIndex - 1), SubSeq(p, dotIndex, Len(p))>>
        ELSE <<p, <<>>>>

\* re.compile('\W').sub('', s)
RECURSIVE StripNonWord(_)
StripNonWord(s) ==
    IF s = <<>> THEN <<>>
    ELSE (IF Head(s) \in WordChars THEN <<Head(s)>> ELSE <<>>) \o StripNonWord(Tail(s))

\* str(n) for n >= 0
RECURSIVE Str(_)
Str(n) == IF n < 10 THEN <<DigitChars[n + 1]>> ELSE Str(n \div 10) \o <<DigitChars[(n % 10) + 1]>>

\* s.zfill(w)
RECURSIVE ZFill(_, _)
ZFill(s, w) == IF Len(s) >= w THEN s ELSE ZFill(<<"0">> \o s, w)

\* '-'.join(x for x in parts if x)
RECURSIVE JoinNonEmpty(_)
JoinNonEmpty(parts) ==
    IF parts = <<>> THEN <<>>
    ELSE LET rest == JoinNonEmpty(Tail(parts))
         IN  IF Head(parts) = <<>> THEN rest
             ELSE IF rest = <<>> THEN Head(parts)
             ELSE Head(parts) \o <<"-">> \o rest

(***************************************************************************)
(* State                                                                   *)
(***************************************************************************)
VARIABLES
    config,     \* Downloadable class configuration: _overwrite, _skip_collisions, max_name_length
    disk,       \* the destination directory: file name -> content
    tmpfs,      \* the live scratch directories: id -> (file name -> content)
    ntemp,      \* number of scratch directories created so far
    dl,         \* the Downloadable at hand: url, number, relation_id, _subreddit, __safe_filename
    stack,      \* the activations of pull(), innermost last
    probe,      \* the activation of safe_filename(guarantee_unique=True), or None
    pc,         \* where the caller of the Downloadable is
    ret,        \* what the caller's last call returned
    call,       \* the caller's last call: what it was and what the disk held then
    calls,      \* number of calls the driver has made
    fetches,    \* the requests made by the caller's last call: the body received, 0 for a failure
    exc,        \* the exception that ended the run, or None
    served,     \* the bodies a URL may serve
    mode,       \* spider configuration: RelativeScore, MinimumScore
    feed,       \* position in the feed list (0 before the first feed)
    fetched,    \* the feeds _get_fetched_subreddit has cached
    topcache,   \* what _get_highest_score_from_subreddit has cached: feed -> result
    budget,     \* how many submissions the feeds may still list
    sub,        \* the submission at hand, or None
    pending,    \* the Downloadables the resolver has yet to yield
    res,        \* the resolution of the submission at hand: resolvers matched, resolver used,
                \* remote answer and the number of items in it
    status,     \* how the listing of the current feed began or ended
    hist,       \* how far each submission of the current feed got, in the order fetched
    imgur       \* ImgurManager class state

dlvars == <<config, disk, tmpfs, ntemp, dl, stack, probe, pc, ret, call, calls, fetches, exc, served>>

dlvars_but_pc == <<config, disk, tmpfs, ntemp, dl, stack, probe, ret, call, calls, fetches, exc, served>>

wvars == <<mode, feed, fetched, topcache, budget, sub, pending, res, status, hist, imgur>>

vars == <<dlvars, wvars>>

(***************************************************************************)
(* Downloadable                                                            *)
(***************************************************************************)
\* Downloadable.__init__
NewDownloadable(url, number, relation_id) ==
    [url         |-> SplitFirst(url, "?"),
     number      |-> IF IsNone(number) THEN <<>> ELSE ZFill(Str(Val(number)), ZFillWidth),
     relation_id |-> StripNonWord(relation_id),
     subreddit   |-> None,
     cache       |-> None]

\* the subreddit property
Subreddit(d) == IF IsNone(d.subreddit) THEN <<>> ELSE Val(d.subreddit)

\* mutant: the name is stored as given
SetSubredditOfRaw(d, name) ==
    [d EXCEPT !.cache = None, !.subreddit = Some(name)]

\* the subreddit setter
SetSubredditOf(d, name) ==
    [d EXCEPT !.cache = None, !.subreddit = Some(ToLower(ReplaceChar(name, " ", "_")))]

\* mutant: the joined name is truncated, not the basename
NamePartsTruncatesJoined(d, cfg) ==
    LET se        == SplitExt(d.url)
        extension == ToLower(se[2])
        joined    == ToLower(JoinNonEmpty(<<Subreddit(d), d.relation_id, d.number,
                                            SplitLast(se[1], "/")>>))
    IN  <<IF Len(joined) > cfg.max_name_length
          THEN SubSeq(joined, 1, cfg.max_name_length) ELSE joined, extension>>

\* safe_filename, lines 93-100: <<filename, extension>>
NameParts(d, cfg) ==
    LET se        == SplitExt(d.url)
        extension == ToLower(se[2])
        segment   == SplitLast(se[1], "/")
        filename  == IF Len(segment) > cfg.max_name_length
                     THEN SubSeq(segment, 1, cfg.max_name_length)
                     ELSE segment
    IN  <<ToLower(JoinNonEmpty(<<Subreddit(d), d.relation_id, d.number, filename>>)), extension>>

\* os.path.exists(os.path.join(dest_dir, name))
Exists(name) == name \in DOMAIN disk

\* mutant: the cached name is never consulted
SafeFilenameUncached(d, cfg) ==
    LET p == NameParts(d, cfg)
    IN  <<[d EXCEPT !.cache = Some(p[1] \o p[2])], p[1] \o p[2]>>

\* safe_filename(): <<the Downloadable afterwards, the name returned>>
SafeFilename(d, cfg) ==
    IF ~IsNone(d.cache)
    THEN <<d, Val(d.cache)>>
    ELSE LET p == NameParts(d, cfg)
         IN  <<[d EXCEPT !.cache = Some(p[1] \o p[2])], p[1] \o p[2]>>

\* mutant: the destination is derived from the URL again, whatever name is cached
DestinationRecomputed(d, cfg) ==
    LET p == NameParts(d, cfg)
    IN  p[1] \o p[2]

\* the destination property (relative to dest_dir)
Destination(d, cfg) == SafeFilename(d, cfg)[2]

\* the directory dir without the file name
Remove(dir, name) == [n \in DOMAIN dir \ {name} |-> dir[n]]

\* the directory dir with the file name holding content
Put(dir, name, content) == [n \in DOMAIN dir \cup {name} |-> IF n = name THEN content ELSE dir[n]]

EmptyDir == [n \in {} |-> 0]

(***************************************************************************)
(* make_request                                                            *)
(***************************************************************************)
\* what requests.get may do: raise, or answer with a status and a body
Outcomes ==
    {[kind |-> "ConnectionError"], [kind |-> "ReadTimeout"]}
    \cup {[kind |-> "response", status |-> 404, body |-> 0]}
    \cup {[kind |-> "response", status |-> 200, body |-> b] : b \in served}

\* mutant: the except clause for ReadTimeout is missing
MakeRequestTimeoutEscapes(o) ==
    IF o.kind = "ConnectionError" THEN [raised |-> Some("RequestFailed"), request |-> None]
    ELSE IF o.kind = "ReadTimeout" THEN [raised |-> Some("ReadTimeout"), request |-> None]
    ELSE IF o.status # 200 THEN [raised |-> Some("RequestFailed"), request |-> None]
    ELSE [raised |-> None, request |-> Some(o)]

\* make_request: the exception raised (or None) and the request returned
MakeRequest(o) ==
    IF o.kind = "ConnectionError" THEN [raised |-> Some("RequestFailed"), request |-> None]
    ELSE IF o.kind = "ReadTimeout" THEN [raised |-> Some("RequestFailed"), request |-> None]
    ELSE IF o.status # 200 THEN [raised |-> Some("RequestFailed"), request |-> None]
    ELSE [raised |-> None, request |-> Some(o)]

(***************************************************************************)
(* Downloadable.pull and safe_filename(guarantee_unique=True)              *)
(***************************************************************************)
Top == stack[Len(stack)]

NewFrame == [pc |-> "fetch", temp |-> 0, rec |-> None]

\* where the caller of an outermost call continues
AfterCall(p) == IF p = "pulling" THEN "dl_next" ELSE "idle"

\* the innermost pull() returns val
Return(val) ==
    IF Len(stack) = 1
    THEN /\ stack' = <<>>
         /\ ret' = Some(val)
         /\ pc' = AfterCall(pc)
    ELSE /\ stack' = [SubSeq(stack, 1, Len(stack) - 1)
                        EXCEPT ![Len(stack) - 1].pc = "after",
                               ![Len(stack) - 1].rec = Some(val)]
         /\ UNCHANGED <<ret, pc>>

\* mutant: the scratch directory is left behind
CleanupForgotten(fs, temp) == fs

\* the exit of the with block of line 63: TemporaryDirectory removes temp
\* (no frame has the directory 0: removing it changes nothing)
Cleanup(fs, temp) == Remove(fs, temp)

\* the with blocks of the activations frames are left, innermost first
RECURSIVE Unwind(_, _)
Unwind(fs, frames) ==
    IF frames = <<>> THEN fs
    ELSE Unwind(Cleanup(fs, frames[Len(frames)].temp), SubSeq(frames, 1, Len(frames) - 1))

\* an exception nobody catches unwinds the activations frames, whose scratch
\* directories are fs, and ends the run
RaiseFrom(e, fs, frames) ==
    /\ stack' = <<>>
    /\ tmpfs' = Unwind(fs, frames)
    /\ probe' = None
    /\ pc' = "crashed"
    /\ exc' = Some(e)
    /\ ret' = None

\* an exception nobody catches unwinds every pull() and ends the run
Raise(e) == RaiseFrom(e, tmpfs, stack)

\* mutant: the retry is left out
RecurseForgotten(frames) ==
    stack' = [frames EXCEPT ![Len(frames)].pc = "after"]

\* self.pull() from inside pull(), line 79
Recurse(frames) ==
    stack' = [frames EXCEPT ![Len(frames)].pc = "wait"] \o <<NewFrame>>

\* safe_filename(guarantee_unique=True), lines 93-106, called by pull() (line 78)
\* with the scratch directory t live, or by the driver
StartProbe(d, frames) ==
    LET p        == NameParts(d, config)
        proposed == p[1] \o p[2]
    IN  IF Exists(proposed)
        THEN /\ probe' = Some([filename |-> p[1] \o <<"-">>, extension |-> p[2],
                               proposed |-> proposed, iterations |-> 0])
             /\ dl' = d
             /\ stack' = frames
             /\ UNCHANGED <<ret, pc>>
        ELSE /\ probe' = None
             /\ dl' = [d EXCEPT !.cache = Some(proposed)]
             /\ IF frames # <<>>
                THEN Recurse(frames) /\ UNCHANGED <<ret, pc>>
                ELSE stack' = frames /\ ret' = Some(proposed) /\ pc' = AfterCall(pc)

\* mutant: the path probed lacks the extension
ProbeNextNoExtension(pr, digit) ==
    [pr EXCEPT !.filename = pr.filename \o Str(digit),
               !.proposed = pr.filename \o Str(digit),
               !.iterations = @ + 1]

\* mutant: the digit drawn is not appended
ProbeNextNoDigit(pr, digit) ==
    [pr EXCEPT !.proposed = pr.filename \o pr.extension,
               !.iterations = @ + 1]

\* the body of the while loop, lines 109-111, with the digit drawn
ProbeNext(pr, digit) ==
    [pr EXCEPT !.filename = pr.filename \o Str(digit),
               !.proposed = pr.filename \o Str(digit) \o pr.extension,
               !.iterations = @ + 1]

\* one iteration of the while loop, lines 108-111, and what follows its exit
ProbeStep ==
    /\ ~IsNone(probe)
    /\ Exists(Val(probe).proposed)
    /\ \E digit \in 0..MaxDigit :
        LET next == ProbeNext(Val(probe), digit)
            name == next.filename \o next.extension
        IN  IF Exists(next.proposed)
            THEN /\ probe' = Some(next)
                 /\ UNCHANGED <<dl, stack, ret, pc>>
            ELSE /\ probe' = None
                 /\ dl' = [dl EXCEPT !.cache = Some(name)]
                 /\ IF stack # <<>>
                    THEN Recurse(stack) /\ UNCHANGED <<ret, pc>>
                    ELSE UNCHANGED stack /\ ret' = Some(name) /\ pc' = AfterCall(pc)
    /\ UNCHANGED <<config, disk, tmpfs, ntemp, call, calls, fetches, exc, served>>
    /\ UNCHANGED wvars

\* mutant: the skip policy is never consulted
PlacementIgnoresSkip(local_copy_exists, cfg) ==
    IF local_copy_exists /\ cfg.overwrite THEN "overwrite"
    ELSE IF local_copy_exists THEN "unique"
    ELSE "move"

\* mutant: the overwrite policy is consulted before the skip policy
PlacementOverwriteFirst(local_copy_exists, cfg) ==
    IF local_copy_exists /\ cfg.overwrite THEN "overwrite"
    ELSE IF local_copy_exists /\ cfg.skip THEN "skip"
    ELSE IF local_copy_exists THEN "unique"
    ELSE "move"

\* which branch of lines 68-82 pull() takes
Placement(local_copy_exists, cfg) ==
    IF local_copy_exists /\ cfg.skip THEN "skip"
    ELSE IF local_copy_exists /\ cfg.overwrite THEN "overwrite"
    ELSE IF local_copy_exists THEN "unique"
    ELSE "move"

\* mutant: the new copy is moved before the old one is moved aside, and the
\* old one then lands on it
OverwriteKeepsOld(dir, scratch, dest, new_copy) ==
    Put(Put(dir, dest, scratch[new_copy]), dest, dir[dest])

\* lines 73-75: the destination directory after the old copy is moved into the
\* scratch directory and the new copy out of it
Overwrite(dir, scratch, dest, new_copy) ==
    LET old_copy == <<"t","o","_","d","e","l","e","t","e",".","t","m","p">>
        aside    == Put(scratch, old_copy, dir[dest])
        moved    == Remove(dir, dest)
    IN  Put(moved, dest, aside[new_copy])

\* what write_request may do: write the body, or raise
WriteOutcomes == {"written", "OSError"}

\* pull(), lines 57-82, up to its return, its recursive call or the probe loop
PullFetch ==
    /\ stack # <<>>
    /\ Top.pc = "fetch"
    /\ IsNone(probe)
    /\ \E o \in Outcomes, w \in WriteOutcomes :
        LET r == MakeRequest(o)
        IN  /\ fetches' = Append(fetches, IF IsNone(r.request) THEN 0 ELSE Val(r.request).body)
            /\ IF r.raised = Some("RequestFailed")
               THEN /\ Return(FALSE)
                    /\ UNCHANGED <<disk, tmpfs, ntemp, dl, probe, exc>>
               ELSE IF ~IsNone(r.raised)
               THEN /\ Raise(Val(r.raised))
                    /\ UNCHANGED <<disk, ntemp, dl>>
               ELSE LET temp     == ntemp + 1
                        sf       == SafeFilename(dl, config)
                        d        == sf[1]
                        new_copy == sf[2]
                        body     == Val(r.request).body
                        scratch  == Put(EmptyDir, new_copy, body)
                        within   == Put(tmpfs, temp, scratch)
                        dest     == Destination(d, config)
                        local_copy_exists == Exists(dest)
                    IN  /\ ntemp' = temp
                        /\ IF w # "written"
                           THEN /\ RaiseFrom(w, within, [stack EXCEPT ![Len(stack)].temp = temp])
                                /\ dl' = d
                                /\ UNCHANGED disk
                           ELSE IF Placement(local_copy_exists, config) = "skip"
                           THEN /\ Return(FALSE)
                                /\ dl' = d
                                /\ tmpfs' = Cleanup(within, temp)
                                /\ UNCHANGED <<disk, probe, exc>>
                           ELSE IF Placement(local_copy_exists, config) = "overwrite"
                           THEN /\ Return(TRUE)
                                /\ dl' = d
                                /\ disk' = Overwrite(disk, scratch, dest, new_copy)
                                /\ tmpfs' = Cleanup(within, temp)
                                /\ UNCHANGED <<probe, exc>>
                           ELSE IF Placement(local_copy_exists, config) = "unique"
                           THEN /\ tmpfs' = within
                                /\ StartProbe(d, [stack EXCEPT ![Len(stack)].temp = temp,
                                                           ![Len(stack)].pc = "probe"])
                                /\ UNCHANGED <<disk, exc>>
                           ELSE /\ Return(TRUE)
                                /\ dl' = d
                                /\ disk' = Put(disk, dest, scratch[new_copy])
                                /\ tmpfs' = Cleanup(within, temp)
                                /\ UNCHANGED <<probe, exc>>
    /\ UNCHANGED <<config, call, calls, served>>
    /\ UNCHANGED wvars

\* the recursive pull() has returned: leave the with block (line 83), return True
PullAfter ==
    /\ stack # <<>>
    /\ Top.pc = "after"
    /\ tmpfs' = Cleanup(tmpfs, Top.temp)
    /\ Return(TRUE)
    /\ UNCHANGED <<config, disk, ntemp, dl, probe, call, calls, fetches, exc, served>>
    /\ UNCHANGED wvars

(***************************************************************************)
(* A caller of one Downloadable: any sequence of the object's operations   *)
(***************************************************************************)
\* display names of feeds
FeedNames == {<<"A"," ","b">>, <<"c">>}

\* MaxNameLength of config.ini
NameLengths == {2, 8}

\* constructor arguments: <<url, number, relation_id>>
DLInputs ==
    {<<<<"h","t","t","p",":","/","/","h",".","i","o","/","A","b",".","J","P","G","?","x","=","1">>, None, <<>>>>,
     <<<<"h","t","t","p",":","/","/","h",".","i","o","/","p","/","L","o","n","g","N","a","m","e",".","p","n","g">>, Some(2), <<"a","!","B">>>>,
     <<<<"h","t","t","p",":","/","/","h",".","i","o","/","n","o","e","x","t">>, None, <<>>>>}

\* the names the Downloadable d may take, a feed name assigned or not
BaseNames(d, cfg) ==
    {NameParts(e, cfg) : e \in {d} \cup {SetSubredditOf(d, f) : f \in FeedNames}}

\* what the destination directory may hold at the start: nothing; or a file
\* of another name together with every base name, and with the names the
\* probe draws for the digits of taken
InitialDisks(d, cfg) ==
    {EmptyDir} \cup
    {[n \in {<<"o","t","h","e","r",".","t","x","t">>}
            \cup {p[1] \o p[2] : p \in BaseNames(d, cfg)}
            \cup {p[1] \o <<"-">> \o Str(k) \o p[2] : p \in BaseNames(d, cfg), k \in taken}
        |-> 0] : taken \in {{}, {MaxDigit}, 0..MaxDigit}}

\* ImgurManager's class attributes as the class statement leaves them, with
\* counts of the credential reads, client constructions, quota queries and
\* remote gallery calls
ImgurClass ==
    [configured |-> FALSE, config |-> FALSE, client |-> FALSE, remains |-> None,
     connected_ |-> FALSE, connected |-> FALSE, reads |-> 0, builds |-> 0, queries |-> 0,
     calls |-> 0]

\* no Downloadable is at hand
NoDownloadable == NewDownloadable(<<>>, None, <<>>)

\* the feed walker does not run
WalkerAtRest ==
    /\ mode = [relative |-> FALSE, minimum |-> 0]
    /\ feed = 0
    /\ fetched = {}
    /\ topcache = <<>>
    /\ budget = 0
    /\ sub = None
    /\ pending = <<>>
    /\ res = None
    /\ status = "none"
    /\ hist = <<>>
    /\ imgur = ImgurClass

NoCall == [op |-> "none", disk0 |-> EmptyDir, dl0 |-> None, arg |-> <<>>]

ThisCall(op) == [op |-> op, disk0 |-> disk, dl0 |-> Some(dl), arg |-> <<>>]

\* the caller is between two calls
Idle == pc = "idle" /\ stack = <<>> /\ IsNone(probe)

InitDL ==
    /\ config \in [overwrite : BOOLEAN, skip : BOOLEAN, max_name_length : NameLengths]
    /\ \E i \in DLInputs :
        /\ dl = NewDownloadable(i[1], i[2], i[3])
        /\ disk \in InitialDisks(NewDownloadable(i[1], i[2], i[3]), config)
    /\ tmpfs = EmptyDir
    /\ ntemp = 0
    /\ stack = <<>>
    /\ probe = None
    /\ pc = "idle"
    /\ ret = None
    /\ call = NoCall
    /\ calls = 0
    /\ fetches = <<>>
    /\ exc = None
    /\ served = 1..MaxBody
    /\ WalkerAtRest

\* downloadable.subreddit = name
CallSetSubreddit ==
    /\ Idle
    /\ calls < MaxCalls
    /\ \E name \in FeedNames :
        /\ dl' = SetSubredditOf(dl, name)
        /\ call' = [ThisCall("subreddit") EXCEPT !.arg = name]
    /\ calls' = calls + 1
    /\ ret' = None
    /\ fetches' = <<>>
    /\ UNCHANGED <<config, disk, tmpfs, ntemp, stack, probe, pc, exc, served>>
    /\ UNCHANGED wvars

\* downloadable.safe_filename()
CallSafeFilename ==
    /\ Idle
    /\ calls < MaxCalls
    /\ dl' = SafeFilename(dl, config)[1]
    /\ ret' = Some(SafeFilename(dl, config)[2])
    /\ call' = ThisCall("safe_filename")
    /\ calls' = calls + 1
    /\ fetches' = <<>>
    /\ UNCHANGED <<config, disk, tmpfs, ntemp, stack, probe, pc, exc, served>>
    /\ UNCHANGED wvars

\* downloadable.safe_filename(guarantee_unique=True)
CallSafeFilenameUnique ==
    /\ Idle
    /\ calls < MaxCalls
    /\ call' = ThisCall("safe_filename_unique")
    /\ calls' = calls + 1
    /\ fetches' = <<>>
    /\ StartProbe(dl, <<>>)
    /\ UNCHANGED <<config, disk, tmpfs, ntemp, exc, served>>
    /\ UNCHANGED wvars

\* downloadable.pull()
CallPull ==
    /\ Idle
    /\ calls < MaxCalls
    /\ call' = ThisCall("pull")
    /\ calls' = calls + 1
    /\ fetches' = <<>>
    /\ stack' = <<NewFrame>>
    /\ ret' = None
    /\ UNCHANGED <<config, disk, tmpfs, ntemp, dl, probe, pc, exc, served>>
    /\ UNCHANGED wvars

NextDL ==
    \/ CallSetSubreddit
    \/ CallSafeFilename
    \/ CallSafeFilenameUnique
    \/ CallPull
    \/ PullFetch
    \/ PullAfter
    \/ ProbeStep

SpecDL == InitDL /\ [][NextDL]_vars

(***************************************************************************)
(* A caller that only pulls one Downloadable, and goes on with each pull() *)
(* it has begun                                                            *)
(***************************************************************************)
\* as InitDL, with neither collision policy set and one body served
InitPull ==
    /\ config \in [overwrite : {FALSE}, skip : {FALSE}, max_name_length : NameLengths]
    /\ \E i \in DLInputs :
        /\ dl = NewDownloadable(i[1], i[2], i[3])
        /\ disk \in InitialDisks(NewDownloadable(i[1], i[2], i[3]), config)
    /\ tmpfs = EmptyDir
    /\ ntemp = 0
    /\ stack = <<>>
    /\ probe = None
    /\ pc = "idle"
    /\ ret = None
    /\ call = NoCall
    /\ calls = 0
    /\ fetches = <<>>
    /\ exc = None
    /\ served = {1}
    /\ WalkerAtRest

NextPull ==
    \/ CallPull
    \/ PullFetch
    \/ PullAfter
    \/ ProbeStep

\* the interpreter takes the next step of a pull() that has begun (each such
\* step changes stack or probe)
SpecPull ==
    /\ InitPull
    /\ [][NextPull]_vars
    /\ WF_<<stack, probe>>(PullFetch \/ PullAfter \/ ProbeStep)

(***************************************************************************)
(* A caller that only asks one Downloadable for unique names, over         *)
(* directories in which the probe has to go on for several digits, and     *)
(* goes on with each loop it has begun                                     *)
(***************************************************************************)
\* the longest candidate the directory holds, in digits
MaxTaken == 2

\* the strings of 1..k repetitions of one digit the probe may draw
DigitRuns(k) == {[i \in 1..j |-> Str(digit)[1]] : j \in 1..k, digit \in 0..MaxDigit}

\* what the destination directory may hold at the start: nothing; one file of
\* another name; every base name alone; or every base name with the
\* candidates that repeat one digit up to k times, for each k up to MaxTaken
ProbeDisks(d, cfg) ==
    {EmptyDir, [n \in {<<"o","t","h","e","r","-","0",".","t","x","t">>} |-> 0]} \cup
    {[n \in {p[1] \o p[2] : p \in BaseNames(d, cfg)}
            \cup {p[1] \o <<"-">> \o t \o p[2] : p \in BaseNames(d, cfg), t \in DigitRuns(k)}
        |-> 0] : k \in 0..MaxTaken}

InitProbe ==
    /\ config \in [overwrite : {FALSE}, skip : {FALSE}, max_name_length : NameLengths]
    /\ \E i \in DLInputs :
        /\ dl = NewDownloadable(i[1], i[2], i[3])
        /\ disk \in ProbeDisks(NewDownloadable(i[1], i[2], i[3]), config)
    /\ tmpfs = EmptyDir
    /\ ntemp = 0
    /\ stack = <<>>
    /\ probe = None
    /\ pc = "idle"
    /\ ret = None
    /\ call = NoCall
    /\ calls = 0
    /\ fetches = <<>>
    /\ exc = None
    /\ served = {1}
    /\ WalkerAtRest

NextProbe ==
    \/ CallSetSubreddit
    \/ CallSafeFilenameUnique
    \/ ProbeStep

\* the interpreter takes the next iteration of a loop that has begun
SpecProbe ==
    /\ InitProbe
    /\ [][NextProbe]_vars
    /\ WF_probe(ProbeStep)

(***************************************************************************)
(* A caller that only names one Downloadable: safe_filename() over a wider *)
(* set of constructor arguments                                            *)
(***************************************************************************)
NameURLs ==
    {<<"h","t","t","p",":","/","/","h",".","i","o","/","A","b",".","J","P","G","?","x","=","1">>,
     <<"h","t","t","p",":","/","/","h",".","i","o","/","p","/","L","o","n","g","N","a","m","e",".","p","n","g">>,
     <<"h","t","t","p",":","/","/","h",".","i","o","/","n","o","e","x","t">>,
     <<"h","t","t","p",":","/","/","h",".","i","o","/","q",".","r","/","x","-",".","P","n","G">>}

NameNumbers == {None, Some(0), Some(2), Some(12)}

NameRelations == {<<>>, <<"a","!","B">>, <<"!">>}

InitName ==
    /\ config \in [overwrite : {FALSE}, skip : {FALSE}, max_name_length : NameLengths]
    /\ \E url \in NameURLs, number \in NameNumbers, relation_id \in NameRelations :
        dl = NewDownloadable(url, number, relation_id)
    /\ disk = EmptyDir
    /\ tmpfs = EmptyDir
    /\ ntemp = 0
    /\ stack = <<>>
    /\ probe = None
    /\ pc = "idle"
    /\ ret = None
    /\ call = NoCall
    /\ calls = 0
    /\ fetches = <<>>
    /\ exc = None
    /\ served = {1}
    /\ WalkerAtRest

NextName ==
    \/ CallSetSubreddit
    \/ CallSafeFilename

SpecName == InitName /\ [][NextName]_vars



(***************************************************************************)
(* URLs                                                                    *)
(***************************************************************************)
\* the first position of a character of cs in s, Len(s) + 1 when absent
FindAny(s, cs) ==
    IF \E i \in DOMAIN s : s[i] \in cs
    THEN CHOOSE i \in DOMAIN s : s[i] \in cs /\ \A j \in 1..(i - 1) : s[j] \notin cs
    ELSE Len(s) + 1

\* what follows "scheme://"
AfterScheme(url) ==
    LET i == CHOOSE i \in 1..Len(url) :
                /\ i < Len(url) /\ url[i] = "/" /\ url[i + 1] = "/"
                /\ \A j \in 1..(i - 1) : ~(url[j] = "/" /\ url[j + 1] = "/")
    IN  Drop(url, i + 1)

\* urllib.parse.urlparse(url).hostname
Hostname(url) ==
    LET rest == AfterScheme(url)
    IN  ToLower(SubSeq(rest, 1, FindAny(rest, {"/", "?", "#"}) - 1))

\* urllib.parse.urlparse(url).path
UrlPath(url) ==
    LET rest  == AfterScheme(url)
        tail_ == Drop(rest, FindAny(rest, {"/", "?", "#"}) - 1)
    IN  SubSeq(tail_, 1, FindAny(tail_, {"?", "#"}) - 1)

(***************************************************************************)
(* The resolvers (source managers)                                         *)
(***************************************************************************)
\* AcceptedExtensions of config.ini, split at the commas
AcceptedExtensions == {<<".","j","p","g">>, <<".","g","i","f">>}

\* source_managers.managers
Managers == <<"directlink", "gfycat", "imgur", "deviantart">>

\* match_source of each manager
MatchSource(manager, url) ==
    IF manager = "directlink"
    THEN LET segment   == SplitFirst(Drop(UrlPath(url), 1), "?")
             extension == SplitExt(segment)[2]
         IN  IF extension # <<>> THEN extension \in AcceptedExtensions ELSE FALSE
    ELSE IF manager = "gfycat" THEN Contains(<<"g","f","y","c","a","t",".","c","o","m">>, Hostname(url))
    ELSE IF manager = "imgur" THEN Contains(<<"i","m","g","u","r",".","c","o","m">>, Hostname(url))
    ELSE Contains(<<"d","e","v","i","a","n","t","a","r","t",".","c","o","m">>, Hostname(url))

\* mutant: the loop goes on after a match, so that the last match is used
RECURSIVE SelectManagerLastMatch(_, _)
SelectManagerLastMatch(url, i) ==
    IF i > Len(Managers) THEN [tried |-> <<>>, used |-> None]
    ELSE LET rest == SelectManagerLastMatch(url, i + 1)
         IN  [tried |-> <<Managers[i]>> \o rest.tried,
              used  |-> IF IsNone(rest.used) /\ MatchSource(Managers[i], url)
                        THEN Some(Managers[i]) ELSE rest.used]

\* the loop of downloadables_from_submission from manager i on: the managers
\* whose match_source was called, and the manager instantiated (or None)
RECURSIVE SelectManager(_, _)
SelectManager(url, i) ==
    IF i > Len(Managers) THEN [tried |-> <<>>, used |-> None]
    ELSE IF MatchSource(Managers[i], url)
    THEN [tried |-> <<Managers[i]>>, used |-> Some(Managers[i])]
    ELSE [tried |-> <<Managers[i]>> \o SelectManager(url, i + 1).tried,
          used  |-> SelectManager(url, i + 1).used]

\* DirectLinkManager.downloadables_from_url
DirectLinkDownloadables(url) == <<Some(NewDownloadable(SplitFirst(url, "?"), None, <<>>))>>

\* GfycatManager.downloadables_from_url
GfycatDownloadables(url) ==
    LET image_name == SplitFirst(SplitLast(url, "/"), "?")
    IN  <<Some(NewDownloadable(<<"h","t","t","p",":","/","/","g","i","a","n","t",".","g","f","y","c","a","t",".","c","o","m","/">> \o image_name \o <<".","g","i","f">>, None, <<>>))>>

\* DeviantArtManager.downloadables_from_url, the lookup having answered link (or None)
DeviantArtDownloadables(link) ==
    <<IF ~IsNone(link) THEN Some(NewDownloadable(Val(link), None, <<>>)) ELSE None>>

\* ImgurManager._configure
ImgurConfigure(im) ==
    IF ~im.config
    THEN [im EXCEPT !.configured = TRUE, !.config = TRUE, !.reads = @ + 1]
    ELSE [im EXCEPT !.configured = TRUE]

\* mutant: the quota endpoint is asked at every connection
ImgurConnectAsksAgain(im, answer) ==
    LET a == IF ~im.client THEN [im EXCEPT !.client = TRUE, !.builds = @ + 1] ELSE im
        b == [a EXCEPT !.remains = answer, !.queries = @ + 1]
    IN  [b EXCEPT !.connected = TRUE]

\* ImgurManager._connect, the quota endpoint giving answer: the two counters,
\* or None for an answer without them (_remains is then left as it was, None)
ImgurConnect(im, answer) ==
    LET a == IF ~im.client THEN [im EXCEPT !.client = TRUE, !.builds = @ + 1] ELSE im
        b == IF IsNone(a.remains)
             THEN [a EXCEPT !.remains = answer, !.queries = @ + 1]
             ELSE a
    IN  [b EXCEPT !.connected = TRUE]

\* ImgurManager.__init__
ImgurNew(im, answer) ==
    LET a == IF im.configured = FALSE THEN ImgurConfigure(im) ELSE im
    IN  IF ~a.connected_ THEN ImgurConnect(a, answer) ELSE a

\* the default of min_limit
DefaultMinLimit == 1

\* ImgurManager._query_condition
QueryCondition(im, min_limit) ==
    Val(im.remains).client > min_limit /\ Val(im.remains).user > min_limit

\* mutant: only the client counter is decremented
DecrementClientOnly(im) ==
    [im EXCEPT !.remains = Some([client |-> Val(@).client - 1, user |-> Val(@).user])]

\* ImgurManager._decrement_query_count
DecrementQueryCount(im) ==
    [im EXCEPT !.remains = Some([client |-> Val(@).client - 1, user |-> Val(@).user - 1])]

\* self._client.get_album_images / get_image is called (lines 190, 206)
RemoteCall(im) == [im EXCEPT !.calls = @ + 1]

\* ImgurManager._id_from_album
IdFromAlbum(url) == SplitFirst(Drop(UrlPath(url), 3), "?")

\* ImgurManager._id_from_image
IdFromImage(url) == SplitExt(SplitFirst(Drop(UrlPath(url), 1), "?"))[1]

\* mutant: the images are numbered from 0
AlbumDownloadablesFromZero(album_id, links) ==
    [i \in 1..Len(links) |-> Some(NewDownloadable(links[i], Some(i - 1), album_id))]

\* ImgurManager._handle_album, the API having answered with the images' links
AlbumDownloadables(album_id, links) ==
    [i \in 1..Len(links) |-> Some(NewDownloadable(links[i], Some(i), album_id))]

\* ImgurManager._handle_image, the API having answered with the image's link
ImageDownloadables(link) == <<Some(NewDownloadable(link, None, <<>>))>>

(***************************************************************************)
(* The environment of the feed walker                                      *)
(***************************************************************************)
\* the feed list: positions of FeedDisplay; the first feed is listed twice
SubList == <<1, 2, 1>>

\* display_name of each feed
FeedDisplay == <<<<"A"," ","b">>, <<"c">>>>

Scores == {50, 60, 90}

Modes == [relative : BOOLEAN, minimum : {60}]

\* what resolving a feed, or asking for its top submission, may raise
FeedErrors == {"HTTPException", "InvalidSubreddit", "ReadTimeout", "ConnectionError"}

\* what creating or advancing the generator of submissions may raise
PagingErrors == {"HTTPException", "ReadTimeout", "ConnectionError"}

\* what get_top_from_all(limit=1) may do: raise, or yield a submission of a score
TopOutcomes ==
    {[raises |-> e, score |-> 0] : e \in FeedErrors} \cup {[raises |-> "", score |-> 90]}

SubmissionURLs ==
    {<<"h","t","t","p",":","/","/","g","f","y","c","a","t",".","c","o","m","/","A","b">>,
     <<"h","t","t","p",":","/","/","i","m","g","u","r",".","c","o","m","/","a","/","B","1","/">>,
     <<"h","t","t","p",":","/","/","i","m","g","u","r",".","c","o","m","/","C","d">>,
     <<"h","t","t","p",":","/","/","i",".","i","m","g","u","r",".","c","o","m","/","C","d",".","j","p","g","?","q">>,
     <<"h","t","t","p",":","/","/","x",".","d","e","v","i","a","n","t","a","r","t",".","c","o","m","/","e">>,
     <<"h","t","t","p",":","/","/","x",".","c","o","/","p","a","g","e">>}

\* the counters the quota endpoint reports
QuotaAtStart == [client |-> 2, user |-> 1]

\* what the quota endpoint answers: the counters, or an answer without them
QuotaAnswers == {None, Some(QuotaAtStart)}

\* how the run ends after an answer without the counters (lines 153-154): the
\* debugger is missing, is quit, or is left and line 168 subscripts None
QuotaCrashes == {"ImportError", "BdbQuit", "TypeError"}

\* the link of the i-th image the gallery API lists
ImageLink(i) == <<"h","t","t","p",":","/","/","i",".","i","m","g","u","r",".","c","o","m","/","Q">> \o Str(i) \o <<".","P","N","G">>

\* how many images an album may hold
AlbumSizes == {0, 2}

\* what get_album_images may do: raise ImgurClientError, or answer with the
\* links of the album's images
AlbumAnswers ==
    {[error |-> TRUE, links |-> <<>>]}
    \cup {[error |-> FALSE, links |-> [i \in 1..n |-> ImageLink(i)]] : n \in AlbumSizes}

\* what get_image may do: raise ImgurClientError, or answer with the image's link
ImageAnswers ==
    {[error |-> TRUE, links |-> <<>>], [error |-> FALSE, links |-> <<ImageLink(1)>>]}

\* what the oEmbed lookup may answer under 'url'
OEmbedLinks == {None, Some(<<"h","t","t","p",":","/","/","o",".","d","a",".","n","e","t","/","R",".","p","n","g">>)}

(***************************************************************************)
(* The feed walker (spider.py)                                             *)
(***************************************************************************)
InitWalker ==
    /\ config = [overwrite |-> FALSE, skip |-> FALSE, max_name_length |-> 8]
    /\ disk = EmptyDir
    /\ tmpfs = EmptyDir
    /\ ntemp = 0
    /\ dl = NoDownloadable
    /\ stack = <<>>
    /\ probe = None
    /\ pc = "feed"
    /\ ret = None
    /\ call = NoCall
    /\ calls = 0
    /\ fetches = <<>>
    /\ exc = None
    /\ served = {1}
    /\ mode \in Modes
    /\ feed = 0
    /\ fetched = {}
    /\ topcache = <<>>
    /\ budget = MaxSubs
    /\ sub = None
    /\ pending = <<>>
    /\ res = None
    /\ status = "none"
    /\ hist = <<>>
    /\ imgur = ImgurClass

\* mutant: the failure is kept in the cache like a result
GetFetchedSubredditCachesFailure(name, cache, outcome) ==
    IF name \in cache THEN [raised |-> None, cache |-> cache]
    ELSE IF outcome \in FeedErrors
    THEN [raised |-> Some("RequestFailed"), cache |-> cache \cup {name}]
    ELSE [raised |-> None, cache |-> cache \cup {name}]

\* _get_fetched_subreddit: the exception raised (or None) and the cache afterwards
GetFetchedSubreddit(name, cache, outcome) ==
    IF name \in cache THEN [raised |-> None, cache |-> cache]
    ELSE IF outcome \in FeedErrors THEN [raised |-> Some("RequestFailed"), cache |-> cache]
    ELSE [raised |-> None, cache |-> cache \cup {name}]

\* _get_submission_generator: the exception raised (or None)
GetSubmissionGenerator(outcome) ==
    IF outcome \in PagingErrors THEN Some("RequestFailed") ELSE None

\* the outer loop takes the next feed of the list: submissions_from_subreddit
\* up to the first next() of the generator of submissions
StartFeed ==
    /\ pc = "feed"
    /\ feed < Len(SubList)
    /\ feed' = feed + 1
    /\ hist' = <<>>
    /\ sub' = None
    /\ \E o \in FeedErrors \cup {"ok"} :
        LET f == GetFetchedSubreddit(SubList[feed + 1], fetched, o)
        IN  /\ fetched' = f.cache
            /\ IF ~IsNone(f.raised)
               THEN UNCHANGED pc /\ status' = "unresolved"
               ELSE \E g \in PagingErrors \cup {"ok"} :
                        IF ~IsNone(GetSubmissionGenerator(g))
                        THEN UNCHANGED pc /\ status' = "nogenerator"
                        ELSE pc' = "next" /\ status' = "open"
    /\ UNCHANGED <<mode, topcache, budget, pending, res, imgur>>
    /\ UNCHANGED dlvars_but_pc

\* the feed list is exhausted: sys.exit()
Finish ==
    /\ pc = "feed"
    /\ feed = Len(SubList)
    /\ pc' = "done"
    /\ UNCHANGED wvars
    /\ UNCHANGED dlvars_but_pc

\* mutant: the except clause for ReadTimeout is missing
OnNextRaisesTimeoutEscapes(e) ==
    IF e = "StopIteration" THEN "break"
    ELSE IF e = "HTTPException" THEN "continue"
    ELSE IF e = "ConnectionError" THEN "break"
    ELSE "raise"

\* the except clauses of the while loop, lines 134-145: what the loop does
\* when next(submissions) raises e
OnNextRaises(e) ==
    IF e = "StopIteration" THEN "break"
    ELSE IF e = "HTTPException" THEN "continue"
    ELSE IF e = "ReadTimeout" THEN "continue"
    ELSE IF e = "ConnectionError" THEN "break"
    ELSE "raise"

\* one iteration of the while loop of _get_submissions_from_subreddit: the
\* generator yields a submission, is exhausted, or raises
NextSubmission ==
    /\ pc = "next"
    /\ \E e \in PagingErrors \cup {"submission", "StopIteration"} :
        IF e = "submission"
        THEN /\ budget > 0
             /\ \E score \in Scores, url \in SubmissionURLs :
                /\ sub' = Some([score |-> score, url |-> url])
                /\ hist' = Append(hist, "fetched")
             /\ budget' = budget - 1
             /\ pc' = "score"
             /\ UNCHANGED <<status, stack, tmpfs, probe, exc, ret>>
        ELSE IF OnNextRaises(e) = "break"
        THEN /\ pc' = "feed"
             /\ status' = IF e = "StopIteration" THEN "exhausted" ELSE "cut"
             /\ UNCHANGED <<budget, sub, hist, stack, tmpfs, probe, exc, ret>>
        ELSE IF OnNextRaises(e) = "continue"
        THEN /\ budget > 0
             /\ budget' = budget - 1
             /\ hist' = Append(hist, "skipped")
             /\ UNCHANGED <<pc, sub, status, stack, tmpfs, probe, exc, ret>>
        ELSE /\ Raise(e)
             /\ UNCHANGED <<budget, sub, hist, status>>
    /\ res' = None
    /\ UNCHANGED <<mode, feed, fetched, topcache, pending, imgur>>
    /\ UNCHANGED <<config, disk, ntemp, dl, call, calls, fetches, served>>

\* mutant: the comparison admits a score equal to the minimum
AbsoluteComparatorAtLeast(score, minimum) == score >= minimum

\* _absolute_comparator
AbsoluteComparator(score, minimum) == score > minimum

\* _get_highest_score_from_subreddit without its cache: the value returned
GetHighestScore(outcome) ==
    IF outcome.raises \in FeedErrors THEN [isnumber |-> FALSE, value |-> 0]
    ELSE [isnumber |-> TRUE, value |-> outcome.score]

\* _relative_comparator, top_score given: the exception raised (or None) and the result
RelativeComparator(score, top_score, minimum) ==
    IF top_score.value = 0
    THEN [raised |-> Some("ZeroDivisionError"), result |-> FALSE]
    ELSE [raised |-> None, result |-> score * 100 > minimum * top_score.value]

\* the score predicate of line 213 and the break that follows its failure
Score ==
    /\ pc = "score"
    /\ \E o \in TopOutcomes :
        LET f     == SubList[feed]
            top   == IF f \in DOMAIN topcache THEN topcache[f] ELSE GetHighestScore(o)
            v     == IF mode.relative
                     THEN RelativeComparator(Val(sub).score, top, mode.minimum)
                     ELSE [raised |-> None,
                           result |-> AbsoluteComparator(Val(sub).score, mode.minimum)]
            mark(w) == [hist EXCEPT ![Len(hist)] = w]
        IN  /\ topcache' = IF mode.relative THEN Put(topcache, f, top) ELSE topcache
            /\ IF ~IsNone(v.raised)
               THEN /\ Raise(Val(v.raised))
                    /\ hist' = mark("raised")
                    /\ UNCHANGED sub
               ELSE IF v.result
               THEN /\ pc' = "resolve"
                    /\ hist' = mark("pass")
                    /\ UNCHANGED <<sub, stack, tmpfs, probe, exc, ret>>
               ELSE /\ pc' = "feed"
                    /\ hist' = mark("fail")
                    /\ UNCHANGED <<sub, stack, tmpfs, probe, exc, ret>>
    /\ UNCHANGED <<mode, feed, fetched, budget, pending, res, status, imgur>>
    /\ UNCHANGED <<config, disk, ntemp, dl, call, calls, fetches, served>>

\* downloadables_from_submission up to the resolver's first yield
Resolve ==
    /\ pc = "resolve"
    /\ LET url  == Val(sub).url
            sel  == SelectManager(url, 1)
            note(api, n) ==
                /\ res' = Some([tried |-> sel.tried, used |-> sel.used, api |-> api, n |-> n])
                /\ hist' = [hist EXCEPT ![Len(hist)] = "resolved"]
                /\ pc' = "dl_next"
                /\ UNCHANGED <<stack, tmpfs, probe, exc, ret>>
        IN  IF IsNone(sel.used)
            THEN /\ pending' = <<>>
                 /\ note("none", 0)
                 /\ UNCHANGED imgur
            ELSE IF sel.used = Some("directlink")
            THEN /\ pending' = DirectLinkDownloadables(url)
                 /\ note("none", 1)
                 /\ UNCHANGED imgur
            ELSE IF sel.used = Some("gfycat")
            THEN /\ pending' = GfycatDownloadables(url)
                 /\ note("none", 1)
                 /\ UNCHANGED imgur
            ELSE IF sel.used = Some("imgur")
            THEN \E quota \in QuotaAnswers :
                    LET instance == ImgurNew(imgur, quota)
                    IN  IF IsNone(instance.remains)
                        THEN \E e \in QuotaCrashes :
                                /\ imgur' = IF e = "TypeError" THEN instance
                                            ELSE [instance EXCEPT !.connected = FALSE]
                                /\ Raise(e)
                                /\ pending' = <<>>
                                /\ res' = Some([tried |-> sel.tried, used |-> sel.used,
                                                api |-> "noquota", n |-> 0])
                                /\ UNCHANGED hist
                        ELSE /\ imgur' = RemoteCall(DecrementQueryCount(instance))
                             /\ IF StartsWith(UrlPath(url), <<"/","a","/">>)
                                THEN \E answer \in AlbumAnswers :
                                        IF answer.error
                                        THEN pending' = <<>> /\ note("error", 0)
                                        ELSE /\ pending' = AlbumDownloadables(IdFromAlbum(url), answer.links)
                                             /\ note("album", Len(answer.links))
                                ELSE \E answer \in ImageAnswers :
                                        IF answer.error
                                        THEN pending' = <<>> /\ note("error", 0)
                                        ELSE /\ pending' = ImageDownloadables(answer.links[1])
                                             /\ note("image", 1)
            ELSE \E link \in OEmbedLinks :
                    /\ pending' = DeviantArtDownloadables(link)
                    /\ note(IF IsNone(link) THEN "nolink" ELSE "link", 1)
                    /\ UNCHANGED imgur
    /\ UNCHANGED <<mode, feed, fetched, topcache, budget, sub, status>>
    /\ UNCHANGED <<config, disk, ntemp, dl, call, calls, fetches, served>>

\* the inner loop, lines 221-224: the next Downloadable is tagged and pulled,
\* or the resolver is exhausted
NextDownloadable ==
    /\ pc = "dl_next"
    /\ IF pending = <<>>
       THEN /\ pc' = "next"
            /\ sub' = None
            /\ dl' = NoDownloadable
            /\ ret' = None
            /\ call' = NoCall
            /\ fetches' = <<>>
            /\ hist' = [hist EXCEPT ![Len(hist)] = "pulled"]
            /\ UNCHANGED <<stack, tmpfs, probe, exc, pending>>
       ELSE IF IsNone(Head(pending))
       THEN /\ Raise("AttributeError")
            /\ pending' = Tail(pending)
            /\ UNCHANGED <<dl, call, fetches, sub, hist>>
       ELSE /\ dl' = SetSubredditOf(Val(Head(pending)), FeedDisplay[SubList[feed]])
            /\ pending' = Tail(pending)
            /\ stack' = <<NewFrame>>
            /\ pc' = "pulling"
            /\ ret' = None
            /\ fetches' = <<>>
            /\ call' = [op |-> "pull", disk0 |-> disk, arg |-> <<>>,
                        dl0 |-> Some(SetSubredditOf(Val(Head(pending)), FeedDisplay[SubList[feed]]))]
            /\ UNCHANGED <<tmpfs, probe, exc, sub, hist>>
    /\ UNCHANGED <<mode, feed, fetched, topcache, budget, res, status, imgur>>
    /\ UNCHANGED <<config, disk, ntemp, calls, served>>

Next ==
    \/ StartFeed
    \/ Finish
    \/ NextSubmission
    \/ Score
    \/ Resolve
    \/ NextDownloadable
    \/ PullFetch
    \/ PullAfter
    \/ ProbeStep

Spec == InitWalker /\ [][Next]_vars

(***************************************************************************)
(* Properties of one Downloadable, under SpecDL                            *)
(***************************************************************************)
\* a pull() made by the caller has returned
PullReturned == Idle /\ call.op = "pull"

\* the destination of the pull() when it was called, and whether it existed
Dest0 == Destination(Val(call.dl0), config)
Existed0 == Dest0 \in DOMAIN call.disk0

\* every file the directory held at the call is still there, unchanged
OldFilesKept == \A n \in DOMAIN call.disk0 : n \in DOMAIN disk /\ disk[n] = call.disk0[n]

\* C1: a pull() whose destination exists, under the skip policy (overwrite
\* unset), returns False and leaves the directory as it was: the existing file
\* untouched and no file added.
C1_SkipLeavesExisting ==
    (PullReturned /\ config.skip /\ ~config.overwrite /\ Existed0)
        => (ret = Some(FALSE) /\ disk = call.disk0)

\* C1 witness: such a pull() has fetched its URL and returned False
C1_Witness ==
    /\ PullReturned /\ config.skip /\ ~config.overwrite /\ Existed0
    /\ Len(fetches) = 1 /\ fetches[1] > 0
    /\ ret = Some(FALSE)

\* C2: a pull() whose destination exists, under the overwrite policy (skip
\* unset) and with a successful fetch, returns True, the destination holds the
\* bytes fetched, and no other name was created or changed.
C2_OverwriteReplaces ==
    (PullReturned /\ config.overwrite /\ ~config.skip /\ Existed0
        /\ fetches # <<>> /\ fetches[1] > 0)
        => /\ ret = Some(TRUE)
           /\ Len(fetches) = 1
           /\ disk = [n \in DOMAIN call.disk0 |->
                        IF n = Dest0 THEN fetches[1] ELSE call.disk0[n]]

\* C2 witness: the file replaced held other bytes than the ones fetched
C2_Witness ==
    /\ PullReturned /\ config.overwrite /\ ~config.skip /\ Existed0
    /\ Len(fetches) = 1 /\ fetches[1] > 0
    /\ call.disk0[Dest0] # fetches[1]
    /\ disk[Dest0] = fetches[1]

SafeFilenameStep == calls' = calls + 1 /\ call'.op = "safe_filename"

\* the step is an assignment of the feed name by the caller
SubredditStep == calls' = calls + 1 /\ call'.op = "subreddit"

\* the sanitized form of the feed names, written out
Sanitized(name) == IF name = <<"A"," ","b">> THEN <<"a","_","b">> ELSE <<"c">>

\* C9: safe_filename() returns the cached name, unchanged, whenever one is
\* cached (also one that safe_filename(guarantee_unique=True) stored);
\* assigning the feed name empties the cache, and the next safe_filename()
\* returns and caches a name that begins with the sanitized new feed name.
C9_CachedNameStable ==
    [][/\ (SafeFilenameStep /\ ~IsNone(dl.cache)) => (ret' = dl.cache /\ dl' = dl)
       /\ SubredditStep => /\ IsNone(dl'.cache)
                           /\ dl'.subreddit = Some(Sanitized(call'.arg))
       /\ (SafeFilenameStep /\ IsNone(dl.cache))
            => /\ dl'.cache = ret'
               /\ ~IsNone(dl.subreddit)
                    => StartsWith(Val(ret'), Val(dl.subreddit) \o <<"-">>)]_vars

\* C9 witness: safe_filename() has returned a cached name that carries a suffix
C9_Witness ==
    /\ Idle /\ call.op = "safe_filename"
    /\ ~IsNone(Val(call.dl0).cache)
    /\ Val(call.dl0).cache # Some(NameParts(dl, config)[1] \o NameParts(dl, config)[2])
    /\ ret = Val(call.dl0).cache

\* C10: safe_filename(guarantee_unique=True) returns a name that is not on
\* disk when it returns and that is the cached name; the recursive pull()
\* starts with that free name cached, and a pull() called with a free cached
\* name places the file under it.
C10_UniqueNameIsFree ==
    /\ (Idle /\ call.op = "safe_filename_unique")
        => (~IsNone(ret) /\ Val(ret) \notin DOMAIN disk /\ dl.cache = ret
            /\ disk = call.disk0)
    /\ (Len(stack) >= 2 /\ Top.pc = "fetch")
        => (~IsNone(dl.cache) /\ Val(dl.cache) \notin DOMAIN disk)
    /\ (PullReturned /\ ~IsNone(Val(call.dl0).cache) /\ ~Existed0
            /\ fetches # <<>> /\ fetches[1] > 0)
        => (ret = Some(TRUE) /\ disk = Put(call.disk0, Val(Val(call.dl0).cache), fetches[1]))

\* C10 witness: the base name existed, the probe found a free suffixed name,
\* and the pull() that followed wrote the file under it
C10_Witness ==
    /\ PullReturned /\ ~Existed0
    /\ ~IsNone(Val(call.dl0).cache)
    /\ (NameParts(dl, config)[1] \o NameParts(dl, config)[2]) \in DOMAIN call.disk0
    /\ Val(Val(call.dl0).cache) \in DOMAIN disk
    /\ Val(Val(call.dl0).cache) \notin DOMAIN call.disk0

(***************************************************************************)
(* Properties of the feed walker, under Spec                               *)
(***************************************************************************)
\* the step is a fetch that fails, made by the innermost pull()
FetchFailsStep ==
    /\ stack # <<>> /\ Top.pc = "fetch"
    /\ Len(fetches') = Len(fetches) + 1
    /\ fetches'[Len(fetches')] = 0

\* C4: when the fetch of a pull() fails, that pull() returns False at once
\* (no further fetch in that call, nothing raised) and the destination and
\* scratch directories are as before; the walker then takes the next
\* Downloadable the resolver yields.
C4_FetchFailureReturnsFalse ==
    [][/\ FetchFailsStep =>
            /\ Len(stack') = Len(stack) - 1
            /\ disk' = disk /\ tmpfs' = tmpfs
            /\ pc' # "crashed" /\ IsNone(exc')
            /\ Len(stack) = 1 => (ret' = Some(FALSE) /\ pc' = "dl_next" /\ pending' = pending)
            /\ Len(stack) > 1 => (stack'[Len(stack')].rec = Some(FALSE)
                                  /\ stack'[Len(stack')].pc = "after")
       /\ (pc = "dl_next" /\ pending # <<>> /\ ~IsNone(Head(pending))) =>
            /\ pc' = "pulling"
            /\ dl'.url = Val(Head(pending)).url
            /\ pending' = Tail(pending)]_vars

\* C4 witness: a pull() of the walker has returned False after a failed
\* fetch, files of earlier pulls are on disk, and another Downloadable waits
C4_Witness ==
    /\ pc = "dl_next" /\ ret = Some(FALSE) /\ fetches = <<0>>
    /\ pending # <<>>
    /\ disk # EmptyDir

Last(s) == s[Len(s)]

\* the top score of the current feed was asked for and could not be fetched
TopScoreUnavailable ==
    /\ mode.relative /\ feed > 0
    /\ SubList[feed] \in DOMAIN topcache
    /\ ~topcache[SubList[feed]].isnumber

\* C5: in relative-score mode, when the top score of the feed cannot be
\* fetched, the score predicate is false: nothing is raised, the submission
\* fails and the walker leaves the feed.
C5_TopScoreFailureSkips ==
    TopScoreUnavailable => (pc # "crashed" /\ hist # <<>> /\ Last(hist) = "fail")

\* C6: when the oEmbed lookup answers without a media URL, the resolver
\* yields nothing and nothing is raised.
C6_NoMediaYieldsNothing ==
    (~IsNone(res) /\ Val(res).api = "nolink") => (pending = <<>> /\ pc # "crashed")

\* C7: the submissions of a feed are taken in the order fetched; at the first
\* whose score predicate fails the walker leaves the feed for the next one
\* (nothing more is fetched from the feed, resolved or pulled), and every
\* submission fetched before it was resolved and all its Downloadables pulled.
\* In absolute mode a submission passes only with a score above the minimum,
\* and fails otherwise.
C7_StopsAtFirstFailure ==
    \A i \in DOMAIN hist :
        /\ hist[i] = "fail" => (i = Len(hist) /\ pc \in {"feed", "done"} /\ stack = <<>>)
        /\ i < Len(hist) => hist[i] \in {"pulled", "skipped"}
        /\ (~mode.relative /\ hist[i] = "fail") => ~(Val(sub).score > mode.minimum)
        /\ (~mode.relative /\ hist[i] \in {"pass", "resolved"})
                => Val(sub).score > mode.minimum

\* C7 witness: a submission was pulled, the next one has a score equal to the
\* minimum and fails
C7_Witness ==
    /\ ~mode.relative
    /\ Len(hist) = 2 /\ hist[1] = "pulled" /\ hist[2] = "fail"
    /\ Val(sub).score = mode.minimum
    /\ disk # EmptyDir
    /\ pc = "feed"

\* the resolver each URL is for, and the resolvers matched to get at it
ExpectedResolution(url) ==
    IF url = <<"h","t","t","p",":","/","/","i",".","i","m","g","u","r",".","c","o","m","/","C","d",".","j","p","g","?","q">>
    THEN [tried |-> <<"directlink">>, used |-> Some("directlink")]
    ELSE IF url = <<"h","t","t","p",":","/","/","g","f","y","c","a","t",".","c","o","m","/","A","b">>
    THEN [tried |-> <<"directlink", "gfycat">>, used |-> Some("gfycat")]
    ELSE IF url \in {<<"h","t","t","p",":","/","/","i","m","g","u","r",".","c","o","m","/","a","/","B","1","/">>, <<"h","t","t","p",":","/","/","i","m","g","u","r",".","c","o","m","/","C","d">>}
    THEN [tried |-> <<"directlink", "gfycat", "imgur">>, used |-> Some("imgur")]
    ELSE IF url = <<"h","t","t","p",":","/","/","x",".","d","e","v","i","a","n","t","a","r","t",".","c","o","m","/","e">>
    THEN [tried |-> <<"directlink", "gfycat", "imgur", "deviantart">>,
          used |-> Some("deviantart")]
    ELSE [tried |-> <<"directlink", "gfycat", "imgur", "deviantart">>, used |-> None]

\* C8: the resolvers are matched in the order direct-link, gif-host, gallery,
\* oEmbed, up to the first that matches, which alone is used; a URL that
\* matches none yields no Downloadable and raises nothing.
C8_FirstMatchingResolver ==
    (~IsNone(res) /\ ~IsNone(sub)) =>
        /\ Val(res).tried = ExpectedResolution(Val(sub).url).tried
        /\ Val(res).used = ExpectedResolution(Val(sub).url).used
        /\ IsNone(Val(res).used) => (pending = <<>> /\ pc = "dl_next" /\ IsNone(exc))
        /\ Val(res).used = Some("directlink") => Val(res).api = "none"

\* C8 witness: a URL of the gallery host with an accepted extension is being
\* pulled as a direct link
C8_Witness ==
    /\ ~IsNone(res) /\ ~IsNone(sub)
    /\ Val(sub).url = <<"h","t","t","p",":","/","/","i",".","i","m","g","u","r",".","c","o","m","/","C","d",".","j","p","g","?","q">>
    /\ Val(res).used = Some("directlink")
    /\ pc = "pulling"
    /\ imgur = ImgurClass

\* the ordinals of an album's images, written out
Ordinal(i) == <<<<"0","0","1">>, <<"0","0","2">>, <<"0","0","3">>>>[i]

\* the album of the submission at hand has been listed by the remote API
AlbumListed ==
    /\ ~IsNone(res) /\ ~IsNone(sub) /\ Val(res).api = "album"
    /\ pc \in {"dl_next", "pulling"}

\* C11: an album the API lists with N images yields N Downloadables in the
\* album's order, numbered 001..N, all with the album identifier stripped of
\* non-word characters as relation id; an error of the API for the album
\* yields none and raises nothing.  Stated of what the resolver has yet to
\* yield: item i of it is image N - Len(pending) + i of the album.
C11_AlbumExpansion ==
    /\ AlbumListed =>
        /\ Val(sub).url = <<"h","t","t","p",":","/","/","i","m","g","u","r",".","c","o","m","/","a","/","B","1","/">>
        /\ Len(pending) <= Val(res).n
        /\ \A i \in DOMAIN pending :
            LET k == Val(res).n - Len(pending) + i
            IN  /\ ~IsNone(pending[i])
                /\ Val(pending[i]).url = ImageLink(k)
                /\ Val(pending[i]).number = Ordinal(k)
                /\ Val(pending[i]).relation_id = <<"B","1">>
        /\ (pc = "pulling" /\ Val(res).n > 0) =>
            /\ dl.number = Ordinal(Val(res).n - Len(pending))
            /\ dl.relation_id = <<"B","1">>
    /\ (~IsNone(res) /\ Val(res).api = "error") =>
        (pending = <<>> /\ IsNone(exc) /\ pc # "crashed")

\* C11 witness: an album of two images has just been resolved
C11_Witness ==
    /\ AlbumListed /\ pc = "dl_next"
    /\ Val(res).n = 2 /\ Len(pending) = 2
    /\ Val(pending[2]).number = <<"0","0","2">>

\* C12: when the resolution of a feed fails, nothing is cached for it, no
\* submission of it is fetched and nothing is written; nothing is raised, the
\* walker stands before the next feed of the list, which it can take, and the
\* run ends only after the last feed of the list.
C12_UnresolvedFeedSkipped ==
    /\ [][(feed' = feed + 1 /\ status' = "unresolved") =>
            /\ pc' = "feed" /\ IsNone(exc')
            /\ fetched' = fetched /\ SubList[feed'] \notin fetched'
            /\ disk' = disk /\ budget' = budget /\ hist' = <<>>]_vars
    /\ [](status = "unresolved" =>
            /\ pc \in {"feed", "done"} /\ IsNone(exc)
            /\ hist = <<>> /\ SubList[feed] \notin fetched
            /\ (pc = "feed" /\ feed < Len(SubList)) => ENABLED StartFeed)
    /\ [](pc = "done" => feed = Len(SubList))

\* C12 witness: the feed listed first and third has failed to resolve at its
\* second listing too, after the feed between them was resolved and pulled
C12_Witness ==
    /\ feed = 3 /\ status = "unresolved"
    /\ SubList[3] = SubList[1]
    /\ SubList[2] \in fetched
    /\ disk # EmptyDir
    /\ pc = "feed"

\* the step is a next() of the generator of submissions that raises an HTTP
\* error or a read timeout
SkippedStep == pc = "next" /\ hist' = Append(hist, "skipped")

\* C13: nothing raised while the submissions of a feed are paged reaches the
\* top level: after an HTTP error or a read timeout the loop goes on with the
\* next next() of the same feed; a connection error, or a failure to create
\* the generator, ends the feed's listing; in each case the walker can take
\* the next feed of the list.
C13_PagingFailuresContained ==
    /\ [][/\ pc = "next" => (IsNone(exc') /\ pc' \in {"next", "score", "feed"}
                             /\ feed' = feed /\ disk' = disk)
          /\ SkippedStep => (pc' = "next" /\ status' = "open" /\ sub' = sub)
          /\ (pc = "next" /\ status' = "cut") => (pc' = "feed" /\ hist' = hist)
          /\ (feed' = feed + 1 /\ status' = "nogenerator") =>
                (pc' = "feed" /\ IsNone(exc') /\ hist' = <<>> /\ disk' = disk)]_vars
    /\ [](status \in {"cut", "nogenerator"} =>
            /\ pc \in {"feed", "done"} /\ IsNone(exc)
            /\ (pc = "feed" /\ feed < Len(SubList)) => ENABLED StartFeed)

\* C13 witness: a submission was fetched and pulled after a next() that
\* raised, and a connection error then ended the feed's listing
C13_Witness ==
    /\ Len(hist) = 2 /\ hist[1] = "skipped" /\ hist[2] = "pulled"
    /\ status = "cut"
    /\ disk # EmptyDir
    /\ feed < Len(SubList)

\* the scratch directories of the activations of pull() that are in their
\* with block
LiveTemps == {stack[i].temp : i \in DOMAIN stack} \ {0}

\* C14: the scratch directories that exist are those of the activations of
\* pull() inside their with block, one each; a scratch directory is created
\* under a name never used before and is written by its own activation only;
\* once no pull() is active, after a return on any branch or after an
\* exception, none exists.
C14_ScratchScopedToCall ==
    /\ [](/\ DOMAIN tmpfs = LiveTemps
          /\ \A i, j \in DOMAIN stack :
                (i # j /\ stack[i].temp # 0) => stack[i].temp # stack[j].temp
          /\ \A t \in DOMAIN tmpfs : t <= ntemp
          /\ stack = <<>> => tmpfs = EmptyDir)
    /\ [][/\ ntemp' >= ntemp
          /\ \A t \in DOMAIN tmpfs' \ DOMAIN tmpfs : t > ntemp
          /\ \A t \in DOMAIN tmpfs' \cap DOMAIN tmpfs : tmpfs'[t] = tmpfs[t]]_vars

\* C14 witness: the write of the recursive pull() raised; the exception left
\* both with blocks and neither scratch directory remains
C14_Witness ==
    /\ pc = "crashed" /\ exc = Some("OSError")
    /\ Len(fetches) = 2 /\ fetches[2] > 0
    /\ ntemp >= 2
    /\ tmpfs = EmptyDir

(***************************************************************************)
(* Properties of safe_filename(), under SpecName                           *)
(***************************************************************************)
\* the last path segment of each URL, split into basename and extension by hand
BasenameOf(url) ==
    IF url = <<"h","t","t","p",":","/","/","h",".","i","o","/","A","b",".","J","P","G">> THEN <<<<"A","b">>, <<".","J","P","G">>>>
    ELSE IF url = <<"h","t","t","p",":","/","/","h",".","i","o","/","p","/","L","o","n","g","N","a","m","e",".","p","n","g">> THEN <<<<"L","o","n","g","N","a","m","e">>, <<".","p","n","g">>>>
    ELSE IF url = <<"h","t","t","p",":","/","/","h",".","i","o","/","n","o","e","x","t">> THEN <<<<"n","o","e","x","t">>, <<>>>>
    ELSE <<<<"x","-">>, <<".","P","n","G">>>>

\* the components of s that are not empty, each followed by "-"
RECURSIVE DashAfterEach(_)
DashAfterEach(s) ==
    IF s = <<>> THEN <<>> ELSE Head(s) \o <<"-">> \o DashAfterEach(Tail(s))

\* the name of the Downloadable d, composed part by part
ExpectedName(d, cfg) ==
    LET base     == BasenameOf(d.url)
        short    == SubSeq(base[1], 1, IF Len(base[1]) < cfg.max_name_length
                                       THEN Len(base[1]) ELSE cfg.max_name_length)
        nonempty == SelectSeq(<<Subreddit(d), d.relation_id, d.number, short>>,
                              LAMBDA x : x # <<>>)
        dashed   == DashAfterEach(nonempty)
    IN  ToLower(SubSeq(dashed, 1, Len(dashed) - 1)) \o ToLower(base[2])

\* safe_filename() has returned a name it had to compute
NameComputed == Idle /\ call.op = "safe_filename" /\ IsNone(Val(call.dl0).cache)

\* C15: the name safe_filename() computes is the non-empty ones of feed name,
\* relation id, number and basename cut to max_name_length characters, in
\* that order, joined by "-" and lower-cased, followed by the extension
\* lower-cased; it has no upper-case letter.
C15_NameComposition ==
    NameComputed =>
        /\ Val(ret) = ExpectedName(Val(call.dl0), config)
        /\ \A i \in DOMAIN Val(ret) : Val(ret)[i] \notin Range(UpperChars)

\* C15 witness: the relation id is empty after sanitization and is left out,
\* the basename is cut, the joined name is longer than max_name_length
C15_Witness ==
    /\ NameComputed
    /\ Val(call.dl0).relation_id = <<>>
    /\ config.max_name_length = 2
    /\ Val(ret) = <<"a","_","b","-","0","0","2","-","l","o",".","p","n","g">>

(***************************************************************************)
(* Further properties of one Downloadable, under SpecDL and SpecPull       *)
(***************************************************************************)
\* C16: pull() returns True only if a file holding bytes fetched by the call
\* is at the destination when it returns; when the fetch of the recursive
\* pull() fails, the outer pull() does not return True.
C16_TrueMeansWritten ==
    /\ (PullReturned /\ ret = Some(TRUE)) =>
        /\ ~IsNone(dl.cache)
        /\ Val(dl.cache) \in DOMAIN disk
        /\ \E i \in DOMAIN fetches : fetches[i] > 0 /\ disk[Val(dl.cache)] = fetches[i]
    /\ (PullReturned /\ Len(fetches) = 2 /\ fetches[2] = 0) => ret # Some(TRUE)

\* the pull() at hand found its destination taken and renames
Renaming == call.op = "pull" /\ Len(fetches) >= 1 /\ fetches[1] > 0 /\ Existed0
            /\ ~config.overwrite /\ ~config.skip

\* C17: pull() is never more than two activations deep; the second activation
\* exists only while the first waits for it, finds the cached name free, and
\* returns from its fetch step without a probe or a third activation; a
\* pull() that renamed has fetched exactly twice when it returns; and every
\* pull() that has begun returns or ends in an exception.
C17_OneRecursivePull ==
    /\ [](/\ Len(stack) <= 2
          /\ call.op = "pull" => Len(fetches) <= 2
          /\ Len(stack) = 2 =>
                /\ stack[1].pc = "wait" /\ stack[2].pc = "fetch" /\ IsNone(probe)
                /\ Renaming /\ Len(fetches) = 1
                /\ ~IsNone(dl.cache) /\ Val(dl.cache) \notin DOMAIN disk
          /\ (PullReturned /\ Renaming) => Len(fetches) = 2)
    /\ [][Len(stack) = 2 => Len(stack') < 2]_vars
    /\ (stack # <<>> ~> stack = <<>>)

\* C17 witness: the recursive pull() has moved its file to the free name and
\* the outer pull() is about to leave its with block
C17_Witness ==
    /\ Len(stack) = 1 /\ Top.pc = "after" /\ Top.rec = Some(TRUE)
    /\ Renaming /\ Len(fetches) = 2
    /\ Val(dl.cache) \in DOMAIN disk
    /\ Val(dl.cache) \notin DOMAIN call.disk0

\* the feed whose submission is at hand
ThisFeed == FeedDisplay[SubList[feed]]

\* how many Downloadables the resolver has yielded so far
Yielded == Val(res).n - Len(pending)

\* C18: every Downloadable the walker pulls carries the sanitized display name
\* of the feed at hand, assigned once between its construction and its pull()
\* and left alone while it is pulled; every file the walker adds to the
\* destination directory has a name that begins with that sanitized name; and
\* the k-th Downloadable pulled for a submission is the k-th the resolver
\* yielded
C18_TaggedThenPulledInOrder ==
    /\ [](/\ \A i \in DOMAIN pending :
                ~IsNone(pending[i]) =>
                    IsNone(Val(pending[i]).subreddit) /\ IsNone(Val(pending[i]).cache)
          /\ pc = "pulling" =>
                /\ dl.subreddit = Some(Sanitized(ThisFeed))
                /\ Yielded \in 1..Val(res).n
                /\ Val(res).api = "album" =>
                      /\ dl.url = ImageLink(Yielded)
                      /\ dl.number = Ordinal(Yielded))
    /\ [][/\ pc = "pulling" => dl'.subreddit = dl.subreddit /\ pending' = pending
          /\ pc' = "pulling" /\ pc # "pulling" =>
                /\ pending # <<>> /\ ~IsNone(Head(pending))
                /\ pending' = Tail(pending)
                /\ dl'.url = Val(Head(pending)).url
                /\ dl'.number = Val(Head(pending)).number
                /\ dl'.relation_id = Val(Head(pending)).relation_id
          /\ \A n \in DOMAIN disk' \ DOMAIN disk :
                pc = "pulling" /\ StartsWith(n, Sanitized(ThisFeed))]_vars

\* the second image of an album of the feed 'A b' is being pulled and the
\* first one is on disk under the feed's sanitized name
C18_Witness ==
    /\ pc = "pulling" /\ stack # <<>>
    /\ ThisFeed = <<"A"," ","b">>
    /\ Val(res).api = "album" /\ Yielded = 2
    /\ dl.subreddit = Some(<<"a","_","b">>)
    /\ <<"a","_","b","-","b","1","-","0","0","1","-","q","1",".","p","n","g">> \in DOMAIN disk

\* the submission at hand goes to the gallery resolver
GalleryAtHand == pc = "resolve" /\ SelectManager(Val(sub).url, 1).used = Some("imgur")

\* C19: once the counters are known, each gallery resolution, of an album or
\* of a single image, answered or refused, takes one from both counters and
\* makes one remote call, whether or not the quota predicate holds; so after k
\* remote calls each counter is its reported value less k and the difference
\* of the two is the reported one.  Nothing else touches the counters.
C19_BothCountersPerCall ==
    /\ [](~IsNone(imgur.remains) =>
            /\ Val(imgur.remains).client = QuotaAtStart.client - imgur.calls
            /\ Val(imgur.remains).user = QuotaAtStart.user - imgur.calls
            /\ Val(imgur.remains).client - Val(imgur.remains).user
                   = QuotaAtStart.client - QuotaAtStart.user)
    /\ [](IsNone(imgur.remains) => imgur.calls = 0)
    /\ [][IF GalleryAtHand /\ pc' # "crashed"
          THEN /\ imgur'.calls = imgur.calls + 1
               /\ ~IsNone(imgur.remains) =>
                     /\ Val(imgur'.remains).client = Val(imgur.remains).client - 1
                     /\ Val(imgur'.remains).user = Val(imgur.remains).user - 1
               /\ Val(res').api \in {"album", "image", "error"}
          ELSE imgur'.calls = imgur.calls
               /\ (~IsNone(imgur.remains) => imgur'.remains = imgur.remains)]_vars

\* a second remote call was made, and answered, although the quota predicate
\* did not hold of the counters as they stood before it; the user counter is
\* below zero
C19_Witness ==
    /\ imgur.calls = 2
    /\ ~IsNone(imgur.remains)
    /\ ~QueryCondition([imgur EXCEPT !.remains = Some([client |-> Val(@).client + 1,
                                                        user |-> Val(@).user + 1])],
                       DefaultMinLimit)
    /\ Val(imgur.remains).user < 0
    /\ pc = "dl_next" /\ ~IsNone(res) /\ Val(res).api = "image" /\ Len(pending) = 1

\* C20: however many times the gallery resolver is instantiated, the
\* credentials are read once (at the first instantiation), the API client is
\* built at most once and the quota endpoint is asked at most once; once the
\* counters are known no later instantiation replaces them: they only go down,
\* one remote call at a time.
C20_ConfiguredAndConnectedOnce ==
    /\ [](/\ imgur.reads = (IF imgur.configured THEN 1 ELSE 0)
          /\ imgur.builds = (IF imgur.client THEN 1 ELSE 0)
          /\ imgur.builds <= 1 /\ imgur.queries <= 1
          /\ imgur.configured = imgur.client
          /\ imgur.queries = imgur.builds
          /\ imgur.calls > 0 => (imgur.queries = 1 /\ ~IsNone(imgur.remains)))
    /\ [][/\ imgur.configured => (imgur'.configured /\ imgur'.reads = imgur.reads)
          /\ imgur.client => (imgur'.client /\ imgur'.builds = imgur.builds)
          /\ ~IsNone(imgur.remains) =>
                /\ ~IsNone(imgur'.remains)
                /\ imgur'.queries = imgur.queries
                /\ Val(imgur'.remains).client <= Val(imgur.remains).client
                /\ Val(imgur'.remains).user <= Val(imgur.remains).user]_vars

\* the resolver has been instantiated twice, the second time with counters
\* the first resolution had decremented, and they were decremented further
C20_Witness ==
    /\ imgur.calls = 2
    /\ imgur.reads = 1 /\ imgur.builds = 1 /\ imgur.queries = 1
    /\ imgur.remains = Some([client |-> QuotaAtStart.client - 2, user |-> QuotaAtStart.user - 2])

\* the only configuration under which pull() replaces a file
Replacing == config.overwrite /\ ~config.skip

\* C21: unless overwrite is set and skip is unset, no step of any pull(), in
\* any sequence of calls, removes a file of the destination directory or
\* changes its content; and with both policies set a pull() whose destination
\* exists returns False and leaves the directory as it was.
C21_ExistingFilesKept ==
    /\ [][~Replacing =>
            \A n \in DOMAIN disk : n \in DOMAIN disk' /\ disk'[n] = disk[n]]_vars
    /\ []((PullReturned /\ config.skip /\ config.overwrite /\ Existed0)
            => (ret = Some(FALSE) /\ disk = call.disk0))

\* with both policies set, a second pull() of the same URL fetched other bytes
\* than the file its destination held, and returned False
C21_Witness ==
    /\ PullReturned /\ config.skip /\ config.overwrite /\ Existed0
    /\ calls = 2
    /\ Len(fetches) = 1 /\ fetches[1] > 0 /\ fetches[1] # call.disk0[Dest0]
    /\ ret = Some(FALSE)
    /\ disk[Dest0] = call.disk0[Dest0]

\* the length of the longest file name of the directory dir
Longest(dir) ==
    IF DOMAIN dir = {} THEN 0
    ELSE CHOOSE l \in {Len(n) : n \in DOMAIN dir} : \A n \in DOMAIN dir : Len(n) <= l

\* s is k decimal digits
IsDigits(s, k) == Len(s) = k /\ \A i \in DOMAIN s : s[i] \in Range(DigitChars)

\* name is stem, one separator, k digits and ext
Suffixed(name, stem, k, ext) ==
    /\ Len(name) = Len(stem) + 1 + k + Len(ext)
    /\ SubSeq(name, 1, Len(stem) + 1) = stem \o <<"-">>
    /\ IsDigits(SubSeq(name, Len(stem) + 2, Len(stem) + 1 + k), k)
    /\ Drop(name, Len(stem) + 1 + k) = ext

\* safe_filename(guarantee_unique=True) has returned to the caller
UniqueReturned == Idle /\ call.op = "safe_filename_unique"

\* C22: the loop of safe_filename(guarantee_unique=True) ends whatever digits
\* are drawn.  While it runs, the candidate is the base name before the first
\* iteration and afterwards the stem, one separator, one digit per iteration
\* made, and the extension; the candidate exists, so the iteration about to
\* be made is at most the L-th, L the length of the longest file name of the
\* directory; each iteration lengthens the stem by one character.  The name
\* returned is the base name when that was free, and otherwise the stem, one
\* separator, at least one and at most L digits, and the extension.
C22_ProbeTerminates ==
    /\ [](~IsNone(probe) =>
            LET pr == Val(probe)
                p  == NameParts(dl, config)
            IN  /\ Suffixed(pr.filename, p[1], pr.iterations, <<>>)
                /\ pr.extension = p[2]
                /\ pr.proposed = (IF pr.iterations = 0 THEN p[1] \o p[2]
                                  ELSE pr.filename \o pr.extension)
                /\ pr.proposed \in DOMAIN disk
                /\ pr.iterations + 1 <= Longest(disk))
    /\ [](UniqueReturned =>
            LET p    == NameParts(dl, config)
                name == Val(ret)
            IN  /\ disk = call.disk0
                /\ name \notin DOMAIN disk
                /\ IF p[1] \o p[2] \notin DOMAIN disk
                   THEN name = p[1] \o p[2]
                   ELSE \E k \in 1..Longest(disk) : Suffixed(name, p[1], k, p[2]))
    /\ [][(~IsNone(probe) /\ ~IsNone(probe')) =>
            /\ Val(probe').iterations = Val(probe).iterations + 1
            /\ Len(Val(probe').filename) = Len(Val(probe).filename) + 1
            /\ Len(Val(probe').proposed) > Len(Val(probe).proposed)]_vars
    /\ (~IsNone(probe) ~> IsNone(probe))

\* the digits drawn met a candidate of the directory MaxTaken times, and the
\* name returned has one digit more
C22_Witness ==
    /\ UniqueReturned
    /\ Suffixed(Val(ret), NameParts(dl, config)[1], MaxTaken + 1, NameParts(dl, config)[2])
    /\ Longest(disk) > MaxTaken + 1
====
